---- MODULE Spec2Model ----
(***************************************************************************)
(* Object store of shashi/blob_store: the ObjectStore trait (get, put with *)
(* an IfMatch condition, prefix list with a continuation) and its three    *)
(* implementations InMemoryStore, LocalStore and S3Store.                  *)
(*                                                                         *)
(* A Rust String / Vec<u8> is a sequence of byte values: "a/b" is          *)
(* <<97, 47, 98>>.  Option<T> is a sequence of length 0 (None) or 1        *)
(* (Some(x) = <<x>>).  A Result is the record [ok, err, val].  An ETag     *)
(* string is a sequence of pieces: the hex digest is one piece, a quote    *)
(* character is one piece, so the quoted and the bare form differ.         *)
(***************************************************************************)
EXTENDS Naturals, Sequences, FiniteSets

VARIABLES
    backend,    \* which implementation the run exercises: "memory", "local", "s3"; "both" for
                \* an InMemoryStore and a LocalStore called side by side
    map,        \* InMemoryStore.map: key -> <<data, etag>>
    disk,       \* the tree under LocalStore.root: path -> [dir, data]
    bucket,     \* the objects of the S3 bucket: key -> [body, e_tag]
    last,       \* the call that just returned: its arguments, its result, the store before it
    callers,    \* concurrent callers: caller -> the call it has in flight and where it stands
    mutex,      \* InMemoryStore.map's Mutex: None when free, Some(caller) when held
    history,    \* the store the concurrent callers started on and their calls and returns, in order
    last_local  \* the same call as `last`, made on a LocalStore next to the InMemoryStore

vars == <<backend, map, disk, bucket, last, callers, mutex, history, last_local>>

\* what a run of one caller on one store leaves alone
others == <<callers, mutex, history, last_local>>

----------------------------------------------------------------------------
(* The inputs the calls are drawn from.                                    *)

\* "a", "a/a", "ab", "b"
Keys == { <<97>>, <<97, 47, 97>>, <<97, 98>>, <<98>> }

\* the keys the remote bucket is exercised on: "a", "a/a", "b"
S3Keys == { <<97>>, <<97, 47, 97>>, <<98>> }

\* b"", b"h"
Contents == { <<>>, <<104>> }

\* "", "a", "c"
Prefixes == { <<>>, <<97>>, <<99>> }

\* continuation tokens: every key, stored at the time of the call or not
Tokens == Keys

\* `let page_size = 1000` in the code; scaled down so that listings of a
\* handful of keys span several pages
page_size == 2

----------------------------------------------------------------------------
(* Rust values.                                                            *)

None == <<>>
Some(x) == <<x>>

Ok(v) == [ok |-> TRUE, err |-> "", val |-> v]
Err(e, detail) == [ok |-> FALSE, err |-> e, val |-> detail]

IfMatchAny == [kind |-> "Any", tag |-> <<>>]
IfMatchTag(t) == [kind |-> "Tag", tag |-> t]
IfMatchNoneMatch == [kind |-> "NoneMatch", tag |-> <<>>]

\* str::starts_with
starts_with(k, prefix) ==
    /\ Len(prefix) <= Len(k)
    /\ \A i \in 1..Len(prefix) : k[i] = prefix[i]

\* Ord for String: byte-wise lexicographic, a proper prefix is smaller
RECURSIVE StrLess(_, _)
StrLess(s, t) ==
    IF Len(t) = 0 THEN FALSE
    ELSE IF Len(s) = 0 THEN TRUE
    ELSE IF s[1] # t[1] THEN s[1] < t[1]
    ELSE StrLess(Tail(s), Tail(t))

\* Vec<String>::sort on a collection of distinct strings
RECURSIVE sort(_)
sort(S) ==
    IF S = {} THEN <<>>
    ELSE LET m == CHOOSE x \in S : \A y \in S \ {x} : StrLess(x, y)
         IN  <<m>> \o sort(S \ {m})

\* a digest that does not depend on the data
compute_etag_constant(data) == <<"d41d8cd98f00b204e9800998ecf8427e">>

\* format!("{:x}", md5::compute(data)), tabulated for b"", b"h" and b"hi"
compute_etag(data) ==
    CASE data = <<>>    -> <<"d41d8cd98f00b204e9800998ecf8427e">>
      [] data = <<104>> -> <<"2510c39011c5be704182423e3a695e91">>
      [] data = <<104, 105>> -> <<"49f68a5c8493ec2c0bf489821c21fc3b">>

\* the expected tags a caller passes in IfMatch::Tag
Tags == { compute_etag(c) : c \in Contents } \cup { <<"wrong-etag">> }

Conds == { IfMatchAny, IfMatchNoneMatch } \cup { IfMatchTag(t) : t \in Tags }

----------------------------------------------------------------------------
(* Pagination, the same code in InMemoryStore::list and LocalStore::list.  *)

\* a position that compares with >= and so resumes at the token itself
position_at_or_after(keys, token) ==
    LET hits == { i \in 1..Len(keys) : ~StrLess(keys[i], token) }
    IN  IF hits = {} THEN None
        ELSE Some(CHOOSE i \in hits : \A j \in hits : i <= j)

\* keys.iter().position(|k| k > &token)
position_after(keys, token) ==
    LET hits == { i \in 1..Len(keys) : StrLess(token, keys[i]) }
    IN  IF hits = {} THEN None
        ELSE Some(CHOOSE i \in hits : \A j \in hits : i <= j)

\* a pagination whose token is the first key after the page (keys[end])
paginate_token_next_key(keys, continuation) ==
    LET pos   == IF continuation = None THEN None
                 ELSE position_after(keys, continuation[1])
        start == IF pos = None THEN 0 ELSE pos[1] - 1
        end   == IF start + page_size < Len(keys) THEN start + page_size ELSE Len(keys)
        next_token == IF end < Len(keys) THEN Some(keys[end + 1]) ELSE None
    IN  Ok([keys |-> SubSeq(keys, start + 1, end), next |-> next_token])

\* a pagination that hands out a token whenever the page is full
paginate_token_on_full_page(keys, continuation) ==
    LET pos   == IF continuation = None THEN None
                 ELSE position_after(keys, continuation[1])
        start == IF pos = None THEN 0 ELSE pos[1] - 1
        end   == IF start + page_size < Len(keys) THEN start + page_size ELSE Len(keys)
        next_token == IF end - start = page_size THEN Some(keys[end]) ELSE None
    IN  Ok([keys |-> SubSeq(keys, start + 1, end), next |-> next_token])

\* start, end, next_token and the slice keys[start..end]; indices are
\* 0-based as in the code, keys[i] of the code is keys[i + 1] here
paginate(keys, continuation) ==
    LET pos   == IF continuation = None THEN None
                 ELSE position_after(keys, continuation[1])
        start == IF pos = None THEN 0 ELSE pos[1] - 1
        end   == IF start + page_size < Len(keys) THEN start + page_size ELSE Len(keys)
        next_token == IF end < Len(keys) THEN Some(keys[end]) ELSE None
    IN  Ok([keys |-> SubSeq(keys, start + 1, end), next |-> next_token])

----------------------------------------------------------------------------
(* InMemoryStore                                                           *)

InMemoryStore_get(m, key) ==
    IF key \in DOMAIN m THEN Ok(Some(m[key][1])) ELSE Ok(None)

\* an insert that replaces the data of an entry and keeps the etag it had
insert_data(m, key, value) ==
    [k \in DOMAIN m \cup {key} |->
        IF k # key THEN m[k]
        ELSE IF key \in DOMAIN m THEN <<value[1], m[key][2]>> ELSE value]

\* a map that keeps the entry a key already has (entry().or_insert())
insert_keep(m, key, value) ==
    [k \in DOMAIN m \cup {key} |-> IF k \in DOMAIN m THEN m[k] ELSE value]

\* HashMap::insert
insert(m, key, value) ==
    [k \in DOMAIN m \cup {key} |-> IF k = key THEN value ELSE m[k]]

\* the result and the map after the call
InMemoryStore_put(m, key, body, cond) ==
    LET new_etag == compute_etag(body)
        written  == [res |-> Ok(new_etag), map |-> insert(m, key, <<body, new_etag>>)]
        refused  == [res |-> Err("PreconditionFailed", ""), map |-> m]
    IN  CASE cond.kind = "Any" -> written
          [] cond.kind = "Tag" ->
                IF key \in DOMAIN m
                THEN IF m[key][2] = cond.tag THEN written ELSE refused
                ELSE refused
          [] cond.kind = "NoneMatch" ->
                IF key \in DOMAIN m THEN refused ELSE written

InMemoryStore_list(m, prefix, continuation) ==
    LET keys == sort({ k \in DOMAIN m : starts_with(k, prefix) })
    IN  paginate(keys, continuation)

----------------------------------------------------------------------------
(* LocalStore.  The tree under `root` is a function from paths to nodes; a *)
(* path is the sequence of its components below root (<<>> is root), a     *)
(* node is a directory or a regular file holding bytes.  The keys of the   *)
(* model are relative paths without empty, "." or ".." components.         *)

Dir == [dir |-> TRUE, data |-> <<>>]
File(data) == [dir |-> FALSE, data |-> data]

\* the components of a relative path string, split at '/' (byte 47)
RECURSIVE components(_)
components(s) ==
    LET slashes == { i \in 1..Len(s) : s[i] = 47 }
        first   == CHOOSE i \in slashes : \A j \in slashes : i <= j
    IN  IF slashes = {} THEN (IF Len(s) = 0 THEN <<>> ELSE <<s>>)
        ELSE (IF first = 1 THEN <<>> ELSE <<SubSeq(s, 1, first - 1)>>)
                \o components(SubSeq(s, first + 1, Len(s)))

\* self.root.join(key), as a path below root
object_path(key) == components(key)

\* entry.path().strip_prefix(&self.root) as a string
RECURSIVE rel_path(_)
rel_path(path) ==
    IF Len(path) = 0 THEN <<>>
    ELSE IF Len(path) = 1 THEN path[1]
    ELSE path[1] \o <<47>> \o rel_path(Tail(path))

\* the proper ancestors of a path, root included
ancestors(path) == { SubSeq(path, 1, n) : n \in 0..(Len(path) - 1) }

\* the longest name of a directory entry the file system takes, in bytes
NAME_MAX == 255

\* the lookup of path stops at a name the file system does not take: the
\* first component that is not in the tree is longer than NAME_MAX
name_too_long(d, path) ==
    LET missing == { n \in 1..Len(path) : SubSeq(path, 1, n) \notin DOMAIN d }
    IN  /\ <<>> \in DOMAIN d
        /\ \E n \in missing :
              /\ \A k \in missing : n <= k
              /\ Len(path[n]) > NAME_MAX

\* fs::read
fs_read(d, path) ==
    IF path \in DOMAIN d
    THEN IF d[path].dir THEN Err("Io", "IsADirectory") ELSE Ok(d[path].data)
    ELSE IF \E a \in ancestors(path) : a \in DOMAIN d /\ ~d[a].dir
         THEN Err("Io", "NotADirectory")
         ELSE IF name_too_long(d, path)
         THEN Err("Io", "InvalidFilename")
         ELSE Err("Io", "NotFound")

\* a create_dir_all that puts a directory in the place of a file in its way
create_dir_all_force(d, path) ==
    LET chain == ancestors(path) \cup {path}
    IN  [res |-> Ok(<<>>),
         disk |-> [p \in DOMAIN d \cup chain |-> IF p \in chain THEN Dir ELSE d[p]]]

\* fs::create_dir_all: the result and the tree after the call (the
\* directories above a name the file system does not take are made)
create_dir_all(d, path) ==
    LET chain == ancestors(path) \cup {path}
        long  == { n \in 1..Len(path) : Len(path[n]) > NAME_MAX }
        made  == { a \in chain : \A n \in long : Len(a) < n }
    IN  IF \E a \in ancestors(path) : a \in DOMAIN d /\ ~d[a].dir
        THEN [res |-> Err("Io", "NotADirectory"), disk |-> d]
        ELSE IF path \in DOMAIN d /\ ~d[path].dir
        THEN [res |-> Err("Io", "AlreadyExists"), disk |-> d]
        ELSE [res |-> IF long = {} THEN Ok(<<>>) ELSE Err("Io", "InvalidFilename"),
              disk |-> [p \in DOMAIN d \cup made |-> IF p \in DOMAIN d THEN d[p] ELSE Dir]]

\* File::create_new: the file is made, and the call fails when it is there
File_create_new(d, path) ==
    IF path \in DOMAIN d
    THEN [res |-> Err("Io", "AlreadyExists"), disk |-> d]
    ELSE [res |-> Ok(<<>>),
          disk |-> [p \in DOMAIN d \cup {path} |-> IF p = path THEN File(<<>>) ELSE d[p]]]

\* File::create: the file is made, or emptied when it is there; the result
\* and the tree after the call
File_create(d, path) ==
    IF path \in DOMAIN d /\ d[path].dir
    THEN [res |-> Err("Io", "IsADirectory"), disk |-> d]
    ELSE IF path \notin DOMAIN d /\ name_too_long(d, path)
    THEN [res |-> Err("Io", "InvalidFilename"), disk |-> d]
    ELSE [res |-> Ok(<<>>),
          disk |-> [p \in DOMAIN d \cup {path} |-> IF p = path THEN File(<<>>) ELSE d[p]]]

\* file.write_all(body) on the file File::create opened
write_all(d, path, body) ==
    [res |-> Ok(<<>>),
     disk |-> [p \in DOMAIN d \cup {path} |-> IF p = path THEN File(body) ELSE d[p]]]

\* File::create followed by write_all: the result and the tree after the call
create_and_write(d, path, body) ==
    LET file == File_create(d, path)
    IN  IF file.res.ok THEN write_all(file.disk, path, body) ELSE file

LocalStore_get(d, key) ==
    LET r == fs_read(d, object_path(key))
    IN  IF r.ok THEN Ok(Some(r.val))
        ELSE IF r.val = "NotFound" THEN Ok(None)
        ELSE r

\* the precondition check of put: Ok, or the error put returns
LocalStore_check(d, key, cond) ==
    LET existing == LocalStore_get(d, key)
    IN  CASE cond.kind = "Any" -> Ok(<<>>)
          [] cond.kind = "Tag" ->
                IF ~existing.ok THEN existing
                ELSE IF existing.val = None THEN Err("PreconditionFailed", "")
                ELSE IF compute_etag(existing.val[1]) # cond.tag
                     THEN Err("PreconditionFailed", "")
                     ELSE Ok(<<>>)
          [] cond.kind = "NoneMatch" ->
                IF ~existing.ok THEN existing
                ELSE IF existing.val # None THEN Err("PreconditionFailed", "")
                ELSE Ok(<<>>)

\* the result and the tree after the call
LocalStore_put(d, key, body, cond) ==
    LET path    == object_path(key)
        checked == LocalStore_check(d, key, cond)
        made    == IF Len(path) > 0 THEN create_dir_all(d, SubSeq(path, 1, Len(path) - 1))
                   ELSE [res |-> Ok(<<>>), disk |-> d]
        wrote   == create_and_write(made.disk, path, body)
    IN  IF ~checked.ok THEN [res |-> checked, disk |-> d]
        ELSE IF ~made.res.ok THEN made
        ELSE IF ~wrote.res.ok THEN wrote
        ELSE [res |-> Ok(compute_etag(body)), disk |-> wrote.disk]

LocalStore_list(d, prefix, continuation) ==
    LET walked == IF <<>> \in DOMAIN d
                  THEN { rel_path(p) : p \in { q \in DOMAIN d : ~d[q].dir } }
                  ELSE {}
        keys   == sort({ k \in walked : starts_with(k, prefix) })
    IN  paginate(keys, continuation)

----------------------------------------------------------------------------
(* S3Store.  The bucket is the remote service's state; each SDK request    *)
(* either reaches the service or fails in transport (`fault` names the     *)
(* request of the call that fails, "none" when none does).  The service    *)
(* reports the ETag of an object as the quoted hex MD5 of its bytes.       *)

Quote == "\""

\* the ETag header the service reports for an object body
service_e_tag(body) == <<Quote>> \o compute_etag(body) \o <<Quote>>

\* str::trim_matches('"')
RECURSIVE trim_matches(_)
trim_matches(s) ==
    IF Len(s) = 0 THEN s
    ELSE IF s[1] = Quote THEN trim_matches(Tail(s))
    ELSE IF s[Len(s)] = Quote THEN trim_matches(SubSeq(s, 1, Len(s) - 1))
    ELSE s

\* the Display text of an SdkError, a sequence of pieces
TransportError == <<"dispatch failure">>
NoSuchKeyError == <<"service error", "NoSuchKey">>
NotFoundError == <<"service error", "NotFound">>

\* str::contains
contains(text, piece) == \E i \in 1..Len(text) : text[i] = piece

\* client.get_object().send() and body.collect()
get_object(b, key, fault) ==
    IF fault = "get" THEN Err("Sdk", TransportError)
    ELSE IF key \notin DOMAIN b THEN Err("Sdk", NoSuchKeyError)
    ELSE IF fault = "body" THEN Err("Body", TransportError)
    ELSE Ok(b[key].body)

\* client.head_object().send(): the reported e_tag
head_object(b, key, fault) ==
    IF fault = "head" THEN Err("Sdk", TransportError)
    ELSE IF key \notin DOMAIN b THEN Err("Sdk", NotFoundError)
    ELSE Ok(Some(b[key].e_tag))

\* client.put_object().send(): the reported e_tag (absent when the
\* service's response carries none) and the bucket after the request
put_object(b, key, body, fault, report) ==
    IF fault = "put" THEN [res |-> Err("Sdk", TransportError), bucket |-> b]
    ELSE [res |-> Ok(IF report THEN Some(service_e_tag(body)) ELSE None),
          bucket |-> [k \in DOMAIN b \cup {key} |->
                        IF k = key THEN [body |-> body, e_tag |-> service_e_tag(body)]
                        ELSE b[k]]]

S3Store_get(b, key, fault) ==
    LET resp == get_object(b, key, fault)
    IN  IF resp.ok THEN Ok(Some(resp.val))
        ELSE IF resp.err = "Body" THEN Err("Other", "S3 body error")
        ELSE IF contains(resp.val, "NoSuchKey") THEN Ok(None)
        ELSE Err("Other", "S3 error")

\* a check that compares the ETag header as reported, quotes included
S3Store_check_quoted(b, key, cond, fault) ==
    LET head == head_object(b, key, fault)
        current_etag == IF head.ok THEN head.val ELSE None
    IN  CASE cond.kind = "Any" -> Ok(<<>>)
          [] cond.kind = "Tag" ->
                IF current_etag # Some(cond.tag) THEN Err("PreconditionFailed", "")
                ELSE Ok(<<>>)
          [] cond.kind = "NoneMatch" ->
                IF head.ok THEN Err("PreconditionFailed", "") ELSE Ok(<<>>)

\* the precondition check of put: Ok, or the error put returns
S3Store_check(b, key, cond, fault) ==
    LET head == head_object(b, key, fault)
        current_etag == IF head.ok
                        THEN (IF head.val = None THEN None
                              ELSE Some(trim_matches(head.val[1])))
                        ELSE None
    IN  CASE cond.kind = "Any" -> Ok(<<>>)
          [] cond.kind = "Tag" ->
                IF current_etag # Some(cond.tag) THEN Err("PreconditionFailed", "")
                ELSE Ok(<<>>)
          [] cond.kind = "NoneMatch" ->
                IF head.ok THEN Err("PreconditionFailed", "") ELSE Ok(<<>>)

\* the service's continuation token for "resume after key": an opaque string
\* of its own (a marker byte 0 and the key), not the key
service_token(key) == <<0>> \o key

\* client.list_objects_v2().send(): the keys of one page (the service's page
\* holds as many keys as a local one) and the service's next token
list_objects_v2(b, prefix, token, fault) ==
    LET keys  == sort({ k \in DOMAIN b : starts_with(k, prefix) })
        valid == token = None \/ (Len(token[1]) > 0 /\ token[1][1] = 0)
        rest  == IF token = None THEN keys
                 ELSE LET after == { i \in 1..Len(keys) : StrLess(Tail(token[1]), keys[i]) }
                      IN  SubSeq(keys, Len(keys) - Cardinality(after) + 1, Len(keys))
        n     == IF Len(rest) > page_size THEN page_size ELSE Len(rest)
    IN  IF fault = "list" THEN Err("Sdk", TransportError)
        ELSE IF ~valid THEN Err("Sdk", <<"service error", "InvalidArgument">>)
        ELSE Ok([contents |-> SubSeq(rest, 1, n),
                 next_continuation_token |->
                    IF n < Len(rest) THEN Some(service_token(rest[n])) ELSE None])

S3Store_list(b, prefix, continuation, fault) ==
    LET resp == list_objects_v2(b, prefix, continuation, fault)
    IN  IF ~resp.ok THEN Err("Other", "S3 list error")
        ELSE Ok([keys |-> resp.val.contents, next |-> resp.val.next_continuation_token])

\* a put that returns the ETag header as reported, quotes included
S3Store_put_quoted(b, key, body, cond, fault, report) ==
    LET etag    == compute_etag(body)
        checked == S3Store_check(b, key, cond, fault)
        resp    == put_object(b, key, body, fault, report)
        s3_etag == IF resp.res.val = None THEN etag ELSE resp.res.val[1]
    IN  IF ~checked.ok THEN [res |-> checked, bucket |-> b]
        ELSE IF ~resp.res.ok THEN [res |-> Err("Other", "S3 put error"), bucket |-> b]
        ELSE [res |-> Ok(s3_etag), bucket |-> resp.bucket]

\* the result and the bucket after the call
S3Store_put(b, key, body, cond, fault, report) ==
    LET etag    == compute_etag(body)
        checked == S3Store_check(b, key, cond, fault)
        resp    == put_object(b, key, body, fault, report)
        s3_etag == IF resp.res.val = None THEN etag
                   ELSE trim_matches(resp.res.val[1])
    IN  IF ~checked.ok THEN [res |-> checked, bucket |-> b]
        ELSE IF ~resp.res.ok THEN [res |-> Err("Other", "S3 put error"), bucket |-> b]
        ELSE [res |-> Ok(s3_etag), bucket |-> resp.bucket]

----------------------------------------------------------------------------
(* The calls.  `last` records the call that just returned: its arguments,  *)
(* its result, the store it ran on (pre), the keys seen so far when it is  *)
(* part of a traversal that started at list(prefix, None) and followed     *)
(* each next_continuation (chained, seen, calls), and, for a get or put,   *)
(* the successful put to the same key that immediately preceded it, if     *)
(* any (prev).                                                             *)

Empty == [k \in {} |-> <<>>]

NoCall ==
    [op |-> "none", key |-> <<>>, body |-> <<>>, cond |-> IfMatchAny,
     prefix |-> <<>>, cont |-> None, fault |-> "none", res |-> Ok(<<>>),
     pre |-> Empty, chained |-> FALSE, seen |-> <<>>, calls |-> 0, prev |-> None]

\* what a call on `key` remembers of `last`
Prev(key) ==
    IF last.op = "put" /\ last.res.ok /\ last.key = key
    THEN Some([body |-> last.body, kind |-> last.cond.kind, etag |-> last.res.val])
    ELSE None

GetCall(key, fault, res, pre) ==
    [NoCall EXCEPT !.op = "get", !.key = key, !.fault = fault, !.res = res,
                   !.pre = pre, !.prev = Prev(key)]

PutCall(key, body, cond, fault, res, pre) ==
    [NoCall EXCEPT !.op = "put", !.key = key, !.body = body, !.cond = cond,
                   !.fault = fault, !.res = res, !.pre = pre, !.prev = Prev(key)]

\* a list call that starts a traversal (continuation None) or stands alone
ListCall(prefix, continuation, res, pre) ==
    [NoCall EXCEPT !.op = "list", !.prefix = prefix, !.cont = continuation,
                   !.res = res, !.pre = pre,
                   !.chained = (continuation = None),
                   !.seen = IF continuation = None /\ res.ok THEN res.val.keys ELSE <<>>,
                   !.calls = IF continuation = None THEN 1 ELSE 0]

\* the list call that follows the next_continuation of `last`
NextCall(res, pre) ==
    [NoCall EXCEPT !.op = "list", !.prefix = last.prefix, !.cont = last.res.val.next,
                   !.res = res, !.pre = pre,
                   !.chained = TRUE,
                   !.seen = IF res.ok THEN last.seen \o res.val.keys ELSE last.seen,
                   !.calls = last.calls + 1]

\* the caller holds a next_continuation of a traversal
CanFollow ==
    /\ last.op = "list"
    /\ last.chained
    /\ last.res.ok
    /\ last.res.val.next # None

Continuations == {None} \cup { Some(t) : t \in Tokens }

\* what a caller may hand the remote backend: a key, or a token of the service
S3Continuations ==
    {None} \cup { Some(t) : t \in S3Keys } \cup { Some(service_token(t)) : t \in S3Keys }

Init ==
    /\ backend \in {"memory", "local", "s3"}
    /\ map = Empty
    /\ disk \in { Empty, [p \in {<<>>} |-> Dir] }
    /\ disk # Empty => backend = "local"
    /\ bucket = Empty
    /\ last = NoCall
    /\ callers = <<>>
    /\ mutex = None
    /\ history = <<>>
    /\ last_local = NoCall

MemGet(key) ==
    /\ backend = "memory"
    /\ last' = GetCall(key, "none", InMemoryStore_get(map, key), map)
    /\ UNCHANGED <<backend, map, disk, bucket, others>>

MemPut(key, body, cond) ==
    /\ backend = "memory"
    /\ LET r == InMemoryStore_put(map, key, body, cond)
       IN  /\ map' = r.map
           /\ last' = PutCall(key, body, cond, "none", r.res, map)
    /\ UNCHANGED <<backend, disk, bucket, others>>

MemList(prefix, continuation) ==
    /\ backend = "memory"
    /\ last' = ListCall(prefix, continuation,
                        InMemoryStore_list(map, prefix, continuation), map)
    /\ UNCHANGED <<backend, map, disk, bucket, others>>

MemListNext ==
    /\ backend = "memory"
    /\ CanFollow
    /\ last' = NextCall(InMemoryStore_list(map, last.prefix, last.res.val.next), map)
    /\ UNCHANGED <<backend, map, disk, bucket, others>>

LocalGet(key) ==
    /\ backend = "local"
    /\ last' = GetCall(key, "none", LocalStore_get(disk, key), disk)
    /\ UNCHANGED <<backend, map, disk, bucket, others>>

LocalPut(key, body, cond) ==
    /\ backend = "local"
    /\ LET r == LocalStore_put(disk, key, body, cond)
       IN  /\ disk' = r.disk
           /\ last' = PutCall(key, body, cond, "none", r.res, disk)
    /\ UNCHANGED <<backend, map, bucket, others>>

LocalList(prefix, continuation) ==
    /\ backend = "local"
    /\ last' = ListCall(prefix, continuation,
                        LocalStore_list(disk, prefix, continuation), disk)
    /\ UNCHANGED <<backend, map, disk, bucket, others>>

LocalListNext ==
    /\ backend = "local"
    /\ CanFollow
    /\ last' = NextCall(LocalStore_list(disk, last.prefix, last.res.val.next), disk)
    /\ UNCHANGED <<backend, map, disk, bucket, others>>

S3Get(key, fault) ==
    /\ backend = "s3"
    /\ last' = GetCall(key, fault, S3Store_get(bucket, key, fault), bucket)
    /\ UNCHANGED <<backend, map, disk, bucket, others>>

\* the head request is sent for the conditional modes only
S3Put(key, body, cond, fault, report) ==
    /\ backend = "s3"
    /\ fault = "head" => cond.kind # "Any"
    /\ ~report => fault = "none"
    /\ LET r == S3Store_put(bucket, key, body, cond, fault, report)
       IN  /\ bucket' = r.bucket
           /\ last' = PutCall(key, body, cond, fault, r.res, bucket)
    /\ UNCHANGED <<backend, map, disk, others>>

S3List(prefix, continuation, fault) ==
    /\ backend = "s3"
    /\ LET r == S3Store_list(bucket, prefix, continuation, fault)
       IN  last' = [ListCall(prefix, continuation, r, bucket) EXCEPT !.fault = fault]
    /\ UNCHANGED <<backend, map, disk, bucket, others>>

S3ListNext(fault) ==
    /\ backend = "s3"
    /\ CanFollow
    /\ LET r == S3Store_list(bucket, last.prefix, last.res.val.next, fault)
       IN  last' = [NextCall(r, bucket) EXCEPT !.fault = fault]
    /\ UNCHANGED <<backend, map, disk, bucket, others>>

Next ==
    \/ \E k \in Keys : MemGet(k)
    \/ \E k \in Keys, c \in Contents, cond \in Conds : MemPut(k, c, cond)
    \/ \E p \in Prefixes, t \in Continuations : MemList(p, t)
    \/ MemListNext
    \/ \E k \in Keys : LocalGet(k)
    \/ \E k \in Keys, c \in Contents, cond \in Conds : LocalPut(k, c, cond)
    \/ \E p \in Prefixes, t \in Continuations : LocalList(p, t)
    \/ LocalListNext
    \/ \E k \in S3Keys, f \in {"none", "get", "body"} : S3Get(k, f)
    \/ \E k \in S3Keys, c \in Contents, cond \in Conds,
          f \in {"none", "head", "put"}, report \in BOOLEAN :
            S3Put(k, c, cond, f, report)
    \/ \E p \in Prefixes, t \in S3Continuations, f \in {"none", "list"} : S3List(p, t, f)
    \/ \E f \in {"none", "list"} : S3ListNext(f)

Spec == Init /\ [][Next]_vars

----------------------------------------------------------------------------
(* What a store holds, read off its state: the objects (key -> value) and  *)
(* the current fingerprint of a stored key.                                *)

Store ==
    CASE backend = "memory" -> map
      [] backend = "local"  -> disk
      [] backend = "s3"     -> bucket

Objects(st) ==
    CASE backend = "memory" -> [k \in DOMAIN st |-> st[k][1]]
      [] backend = "local"  ->
            [k \in { rel_path(p) : p \in { q \in DOMAIN st : ~st[q].dir } } |->
                st[object_path(k)].data]
      [] backend = "s3"     -> [k \in DOMAIN st |-> st[k].body]

Fingerprint(st, k) ==
    CASE backend = "memory" -> st[k][2]
      [] backend = "local"  -> compute_etag(st[object_path(k)].data)
      [] backend = "s3"     -> trim_matches(st[k].e_tag)

Before == Objects(last.pre)
Current == Objects(Store)

\* the objects after key is created or overwritten with body
Written(objs, key, body) ==
    [k \in DOMAIN objs \cup {key} |-> IF k = key THEN body ELSE objs[k]]

Matching(objs, prefix) == { k \in DOMAIN objs : starts_with(k, prefix) }

PreconditionFailed == Err("PreconditionFailed", "")

\* the call ran on the volatile or the filesystem backend
VolatileOrFilesystem == backend \in {"memory", "local"}

----------------------------------------------------------------------------
(* C1: in the volatile and the filesystem backend, put(k, C, MatchTag(t))  *)
(* succeeds iff k is present with current fingerprint exactly t; in every  *)
(* other case it returns PreconditionFailed and the store is unchanged.    *)
C1_MatchTagIffCurrent ==
    (VolatileOrFilesystem /\ last.op = "put" /\ last.cond.kind = "Tag") =>
        LET holds == /\ last.key \in DOMAIN Before
                     /\ Fingerprint(last.pre, last.key) = last.cond.tag
        IN  /\ last.res.ok <=> holds
            /\ last.res.ok => Current = Written(Before, last.key, last.body)
            /\ ~holds => (last.res = PreconditionFailed /\ Store = last.pre)

(* C2: in the volatile and the filesystem backend, put(k, C, MustNotExist) *)
(* succeeds, creating k with value C, iff k is absent; when k is present   *)
(* it returns PreconditionFailed and the store is unchanged.               *)
C2_MustNotExistIffAbsent ==
    (VolatileOrFilesystem /\ last.op = "put" /\ last.cond.kind = "NoneMatch") =>
        /\ last.res.ok <=> last.key \notin DOMAIN Before
        /\ last.res.ok => Current = Written(Before, last.key, last.body)
        /\ last.key \in DOMAIN Before =>
              (last.res = PreconditionFailed /\ Store = last.pre)

(* C3: in every backend, a get(k) that immediately follows a successful    *)
(* put(k, C, Unconditional) returns Some(C), the zero-length C included    *)
(* (a get whose request fails in transport has no value to return).        *)
C3_PutThenGet ==
    (/\ last.op = "get"
     /\ last.prev # None
     /\ last.fault = "none") =>
        (last.prev[1].kind = "Any" => last.res = Ok(Some(last.prev[1].body)))

\* a get on the filesystem backend returned the zero-length value just written
C3_Witness ==
    /\ backend = "local"
    /\ last.op = "get"
    /\ last.prev # None
    /\ last.prev[1].kind = "Any"
    /\ last.prev[1].body = <<>>
    /\ last.res = Ok(Some(<<>>))

(* C4: in every backend, put(k, C, Unconditional) succeeds from every      *)
(* reachable store state for every key, creating k if absent and           *)
(* overwriting it if present, unless a request fails in transport.         *)
C4_UnconditionalAlwaysSucceeds ==
    (last.op = "put" /\ last.cond.kind = "Any" /\ last.fault = "none") =>
        /\ last.res.ok
        /\ Current = Written(Before, last.key, last.body)

(* C5: in every backend, the fingerprint a successful put to k returned,   *)
(* passed as MatchTag in the next put to k with no call in between, makes  *)
(* that put succeed (unless a request fails in transport).                 *)
C5_ReturnedTagIsCurrent ==
    (/\ last.op = "put"
     /\ last.prev # None
     /\ last.fault = "none") =>
        (last.cond = IfMatchTag(last.prev[1].etag) =>
            /\ last.res.ok
            /\ Current = Written(Before, last.key, last.body))

\* a MatchTag put on the remote backend succeeded with the tag the put
\* before it returned, over a different value
C5_Witness ==
    /\ backend = "s3"
    /\ last.op = "put"
    /\ last.prev # None
    /\ last.cond = IfMatchTag(last.prev[1].etag)
    /\ last.prev[1].body # last.body
    /\ last.res.ok

\* the sequence is strictly increasing in the order of String
Increasing(keys) ==
    \A i \in 1..Len(keys) : \A j \in 1..Len(keys) : i < j => StrLess(keys[i], keys[j])

Elements(keys) == { keys[i] : i \in 1..Len(keys) }

(* C6: in the volatile and the filesystem backend, following each          *)
(* next_continuation from list(prefix, None) with the key set unchanged    *)
(* yields pages of at most page_size keys whose concatenation is the       *)
(* sorted set of stored keys that start with prefix, each exactly once.    *)
C6_ChainedPagesAreTheSortedSet ==
    (VolatileOrFilesystem /\ last.op = "list") =>
        /\ last.res.ok
        /\ Len(last.res.val.keys) <= page_size
        /\ last.chained =>
              /\ Increasing(last.seen)
              /\ Elements(last.seen) \subseteq Matching(Current, last.prefix)
              /\ last.res.val.next = None =>
                    Elements(last.seen) = Matching(Current, last.prefix)

\* a traversal of the volatile backend ended on its second page
C6_Witness ==
    /\ backend = "memory"
    /\ last.op = "list"
    /\ last.chained
    /\ last.calls = 2
    /\ last.res.val.next = None
    /\ Len(last.seen) > page_size

(* C7: in the volatile and the filesystem backend, list(prefix, Some(t))   *)
(* returns only keys strictly greater than t, for every token t.           *)
C7_OnlyKeysAfterToken ==
    (VolatileOrFilesystem /\ last.op = "list" /\ last.cont # None) =>
        \A i \in 1..Len(last.res.val.keys) : StrLess(last.cont[1], last.res.val.keys[i])

(* C8: in the volatile and the filesystem backend, list returns            *)
(* next_continuation None exactly when the page holds the last matching    *)
(* key and Some(token) exactly when matching keys remain after the page;   *)
(* with no matching key it returns the empty page and None.                *)
C8_TokenIffKeysRemain ==
    (VolatileOrFilesystem /\ last.op = "list") =>
        LET page  == last.res.val.keys
            next  == last.res.val.next
            match == Matching(Current, last.prefix)
        IN  /\ match = {} => (page = <<>> /\ next = None)
            /\ match # {} =>
                  /\ page # <<>>
                  /\ next = None <=>
                        \E i \in 1..Len(page) : \A k \in match \ {page[i]} : StrLess(k, page[i])
                  /\ next # None <=>
                        \E k \in match : StrLess(page[Len(page)], k)

\* the final page of a traversal holds exactly page_size keys and no token
C8_Witness ==
    /\ VolatileOrFilesystem
    /\ last.op = "list"
    /\ last.cont # None
    /\ Len(last.res.val.keys) = page_size
    /\ last.res.val.next = None
    /\ Cardinality(Matching(Current, last.prefix)) = 2 * page_size

(* C9: in every backend, get(k) for a key with no stored object returns    *)
(* Ok(None), never an error, whatever other keys are stored (unless the    *)
(* request fails in transport).                                            *)
C9_GetAbsentIsNone ==
    (last.op = "get" /\ last.fault = "none" /\ last.key \notin DOMAIN Before) =>
        last.res = Ok(None)

(* C10: in every backend, a put(k, C, Unconditional) that immediately      *)
(* follows a successful put(k, C, Unconditional) of the same content       *)
(* returns the same fingerprint and leaves the store as it was; the        *)
(* fingerprint a successful put returns is the digest of its content.      *)
C10_SameContentSameTag ==
    (last.op = "put" /\ last.res.ok) =>
        /\ last.res.val = compute_etag(last.body)
        /\ (/\ last.cond.kind = "Any"
            /\ last.prev # None
            /\ last.prev[1].kind = "Any"
            /\ last.prev[1].body = last.body) =>
                (last.res.val = last.prev[1].etag /\ Store = last.pre)

\* the second of two equal unconditional puts to the remote backend returned
\* the first one's fingerprint
C10_Witness ==
    /\ backend = "s3"
    /\ last.op = "put"
    /\ last.res.ok
    /\ last.cond.kind = "Any"
    /\ last.prev # None
    /\ last.prev[1].kind = "Any"
    /\ last.prev[1].body = last.body
    /\ last.res.val = last.prev[1].etag

----------------------------------------------------------------------------
(* C11: in every backend, a successful put of C2 (Unconditional or         *)
(* MatchTag) that immediately follows a successful put of a different C1   *)
(* to the same key returns a fingerprint different from the first one's;   *)
(* and a MatchTag put that carries the fingerprint of a content other      *)
(* than the stored one fails with PreconditionFailed and the stored value  *)
(* stays what it was.                                                      *)
C11_StaleTagFails ==
    /\ (/\ last.op = "put"
        /\ last.res.ok
        /\ last.cond.kind \in {"Any", "Tag"}
        /\ last.prev # None
        /\ last.prev[1].body # last.body) =>
            last.res.val # last.prev[1].etag
    /\ (/\ last.op = "put"
        /\ last.cond.kind = "Tag"
        /\ last.key \in DOMAIN Before
        /\ \E c \in Contents : c # Before[last.key] /\ last.cond.tag = compute_etag(c)) =>
            /\ last.res = PreconditionFailed
            /\ Store = last.pre
            /\ Current[last.key] = Before[last.key]

\* C2 was written over C1 with MatchTag, and a MatchTag put carrying the
\* fingerprint of C1 then failed, on the remote backend
C11_Witness ==
    /\ backend = "s3"
    /\ last.op = "put"
    /\ last.cond.kind = "Tag"
    /\ last.prev # None
    /\ last.prev[1].kind = "Tag"
    /\ last.cond.tag # last.prev[1].etag
    /\ \E c \in Contents : c # last.prev[1].body /\ last.cond.tag = compute_etag(c)
    /\ last.res = PreconditionFailed
    /\ Current[last.key] = last.prev[1].body

----------------------------------------------------------------------------
(* Concurrent callers of one InMemoryStore: the clones of a store share    *)
(* its map through the Arc<Mutex<..>>.  Each caller makes one call.  A     *)
(* call is invoked, locks the mutex, runs its body on the map and returns, *)
(* which drops the guard.  The body of put is two steps: the precondition  *)
(* is read from the map, then the entry is inserted.                       *)

Callers == {1, 2, 3}

\* a caller that has not called yet
Idle == [pc |-> "idle", call |-> NoCall, res |-> Ok(<<>>)]

\* the arguments of a call
Get(key) == [NoCall EXCEPT !.op = "get", !.key = key]
Put(key, body, cond) == [NoCall EXCEPT !.op = "put", !.key = key, !.body = body, !.cond = cond]
List(prefix, continuation) == [NoCall EXCEPT !.op = "list", !.prefix = prefix, !.cont = continuation]

\* the conditions concurrent callers put with
SharedConds ==
    {IfMatchAny, IfMatchNoneMatch} \cup { IfMatchTag(compute_etag(c)) : c \in Contents }

\* the calls the callers of the shared map choose from
MemCalls ==
    { Get(<<97>>), List(<<>>, None) }
        \cup { Put(<<97>>, c, cond) : c \in Contents, cond \in SharedConds }
        \cup { Put(<<98>>, <<104>>, IfMatchAny) }

\* the stores the callers start on: a new one, or one that holds "a" |-> b""
MemStarts == { Empty, InMemoryStore_put(Empty, <<97>>, <<>>, IfMatchAny).map }

\* the callers that have returned, paired with a caller that calls now
ReturnedBefore(c) == { <<d, c>> : d \in { e \in Callers : callers[e].pc = "done" } }

\* Mutex::lock with no guard to wait for
lock_unchecked(holder) == TRUE

\* Mutex::lock returns the guard when no caller holds it
lock(holder) == holder = None

MemInit ==
    /\ backend = "memory"
    /\ map \in MemStarts
    /\ disk = Empty
    /\ bucket = Empty
    /\ last = NoCall
    /\ callers = [c \in Callers |-> Idle]
    /\ mutex = None
    /\ history = [start |-> map, before |-> {}]
    /\ last_local = NoCall

\* a caller invokes get, put or list
MemCall(c, call) ==
    /\ callers[c].pc = "idle"
    /\ callers' = [callers EXCEPT ![c] = [pc |-> "waiting", call |-> call, res |-> Ok(<<>>)]]
    /\ history' = [history EXCEPT !.before = @ \cup ReturnedBefore(c)]
    /\ UNCHANGED <<backend, map, disk, bucket, last, mutex, last_local>>

\* self.map.lock().unwrap()
MemLock(c) ==
    /\ callers[c].pc = "waiting"
    /\ lock(mutex)
    /\ mutex' = Some(c)
    /\ callers' = [callers EXCEPT ![c].pc = "locked"]
    /\ UNCHANGED <<backend, map, disk, bucket, last, history, last_local>>

\* the body of get
MemGetBody(c) ==
    /\ callers[c].pc = "locked"
    /\ callers[c].call.op = "get"
    /\ callers' = [callers EXCEPT ![c].pc = "returning",
                                  ![c].res = InMemoryStore_get(map, callers[c].call.key)]
    /\ UNCHANGED <<backend, map, disk, bucket, last, mutex, history, last_local>>

\* the body of list
MemListBody(c) ==
    /\ callers[c].pc = "locked"
    /\ callers[c].call.op = "list"
    /\ callers' = [callers EXCEPT ![c].pc = "returning",
                                  ![c].res = InMemoryStore_list(map, callers[c].call.prefix,
                                                                callers[c].call.cont)]
    /\ UNCHANGED <<backend, map, disk, bucket, last, mutex, history, last_local>>

\* the match on cond in put: the precondition read from the map
MemPutCheck(c) ==
    /\ callers[c].pc = "locked"
    /\ callers[c].call.op = "put"
    /\ LET call == callers[c].call
           r    == InMemoryStore_put(map, call.key, call.body, call.cond)
       IN  callers' = IF r.res.ok
                      THEN [callers EXCEPT ![c].pc = "insert"]
                      ELSE [callers EXCEPT ![c].pc = "returning", ![c].res = r.res]
    /\ UNCHANGED <<backend, map, disk, bucket, last, mutex, history, last_local>>

\* map.insert(key, (body, new_etag)) and Ok(new_etag)
MemPutInsert(c) ==
    /\ callers[c].pc = "insert"
    /\ LET call == callers[c].call
           new_etag == compute_etag(call.body)
       IN  /\ map' = insert(map, call.key, <<call.body, new_etag>>)
           /\ callers' = [callers EXCEPT ![c].pc = "returning", ![c].res = Ok(new_etag)]
    /\ UNCHANGED <<backend, disk, bucket, last, mutex, history, last_local>>

\* the call returns and its guard is dropped
MemReturn(c) ==
    /\ callers[c].pc = "returning"
    /\ callers' = [callers EXCEPT ![c].pc = "done"]
    /\ mutex' = None
    /\ UNCHANGED <<backend, map, disk, bucket, last, history, last_local>>

MemNext ==
    \/ \E c \in Callers, call \in MemCalls : MemCall(c, call)
    \/ \E c \in Callers : MemLock(c)
    \/ \E c \in Callers : MemGetBody(c)
    \/ \E c \in Callers : MemListBody(c)
    \/ \E c \in Callers : MemPutCheck(c)
    \/ \E c \in Callers : MemPutInsert(c)
    \/ \E c \in Callers : MemReturn(c)

MemSpec == MemInit /\ [][MemNext]_vars

\* the result and the map of a call that runs alone on the map m
Sequential(m, call) ==
    CASE call.op = "get"  -> [res |-> InMemoryStore_get(m, call.key), map |-> m]
      [] call.op = "put"  -> InMemoryStore_put(m, call.key, call.body, call.cond)
      [] call.op = "list" -> [res |-> InMemoryStore_list(m, call.prefix, call.cont), map |-> m]

\* the calls of `todo` can be run one after another from the map m, in an
\* order in which no call comes before one that had returned when it was
\* invoked, so that every call that has returned gets the result it
\* returned; calls that have not returned may be left out
RECURSIVE Linearizes(_, _)
Linearizes(m, todo) ==
    \/ \A c \in todo : callers[c].pc # "done"
    \/ \E c \in todo :
          /\ \A d \in todo : <<d, c>> \notin history.before
          /\ LET r == Sequential(m, callers[c].call)
             IN  /\ callers[c].pc = "done" => r.res = callers[c].res
                 /\ Linearizes(r.map, todo \ {c})

(* C12: in the volatile backend, in every state of every concurrent        *)
(* execution of get, put and list calls, the calls invoked so far have a   *)
(* total order that respects real time (a call that returned before        *)
(* another was invoked comes first) in which every returned call has the   *)
(* result it would have running alone.                                     *)
C12_Linearizable ==
    Linearizes(history.start, { c \in Callers : callers[c].pc # "idle" })

\* three calls returned: two puts that overlapped in time, one of them
\* refused, and a get invoked after both had returned
C12_Witness ==
    /\ \A c \in Callers : callers[c].pc = "done"
    /\ \E c, d, e \in Callers :
          /\ callers[c].call.op = "put" /\ callers[c].res.ok
          /\ callers[d].call.op = "put" /\ callers[d].res = PreconditionFailed
          /\ <<c, d>> \notin history.before
          /\ <<d, c>> \notin history.before
          /\ callers[e].call.op = "get"
          /\ <<c, e>> \in history.before
          /\ <<d, e>> \in history.before
          /\ callers[e].res = Ok(Some(callers[c].call.body))

----------------------------------------------------------------------------
(* One caller, two stores: every call is made on an InMemoryStore and,     *)
(* with the same arguments, on a LocalStore; both start empty.  `last` is  *)
(* the call on the InMemoryStore, `last_local` the one on the LocalStore.  *)

PairInit ==
    /\ backend = "both"
    /\ map = Empty
    /\ disk \in { Empty, [p \in {<<>>} |-> Dir] }
    /\ bucket = Empty
    /\ last = NoCall
    /\ callers = <<>>
    /\ mutex = None
    /\ history = <<>>
    /\ last_local = NoCall

PairGet(key) ==
    /\ backend = "both"
    /\ last' = GetCall(key, "none", InMemoryStore_get(map, key), map)
    /\ last_local' = [GetCall(key, "none", LocalStore_get(disk, key), disk) EXCEPT !.prev = None]
    /\ UNCHANGED <<backend, map, disk, bucket, callers, mutex, history>>

PairPut(key, body, cond) ==
    /\ backend = "both"
    /\ LET m == InMemoryStore_put(map, key, body, cond)
           l == LocalStore_put(disk, key, body, cond)
       IN  /\ map' = m.map
           /\ disk' = l.disk
           /\ last' = PutCall(key, body, cond, "none", m.res, map)
           /\ last_local' = [PutCall(key, body, cond, "none", l.res, disk) EXCEPT !.prev = None]
    /\ UNCHANGED <<backend, bucket, callers, mutex, history>>

PairList(prefix, continuation) ==
    /\ backend = "both"
    /\ last' = ListCall(prefix, continuation,
                        InMemoryStore_list(map, prefix, continuation), map)
    /\ last_local' = ListCall(prefix, continuation,
                              LocalStore_list(disk, prefix, continuation), disk)
    /\ UNCHANGED <<backend, map, disk, bucket, callers, mutex, history>>

PairNext ==
    \/ \E k \in Keys : PairGet(k)
    \/ \E k \in Keys, c \in Contents, cond \in Conds : PairPut(k, c, cond)
    \/ \E p \in Prefixes, t \in Continuations : PairList(p, t)

PairSpec == PairInit /\ [][PairNext]_vars

(* C13: for every sequence of get, put (all three modes) and list calls    *)
(* made on an InMemoryStore and on a LocalStore that both started empty,   *)
(* each call returns the same result on both: the same value or absent,    *)
(* the same success or error with the same fingerprint, the same page of   *)
(* keys and the same next_continuation.                                    *)
C13_SameResults ==
    last.op # "none" => last_local.res = last.res

----------------------------------------------------------------------------
(* The calls of the conformance suite on a very long key: the prefix and   *)
(* 512 characters in one path segment, next to a short key.                *)

\* "a".repeat(512)
long_len == 512

\* "t/" and long_len times "a"
long_key == <<116, 47>> \o [i \in 1..long_len |-> 97]

\* "t/a" and the long key
LongKeys == { <<116, 47, 97>>, long_key }

LongNext ==
    \/ \E k \in LongKeys : MemGet(k)
    \/ \E k \in LongKeys, c \in Contents, cond \in Conds : MemPut(k, c, cond)
    \/ \E k \in LongKeys : LocalGet(k)
    \/ \E k \in LongKeys, c \in Contents, cond \in Conds : LocalPut(k, c, cond)
    \/ \E k \in LongKeys : S3Get(k, "none")
    \/ \E k \in LongKeys, c \in Contents, cond \in Conds, report \in BOOLEAN :
          S3Put(k, c, cond, "none", report)

LongSpec == Init /\ [][LongNext]_vars

(* C14: in every backend, the filesystem backend included, a put of the    *)
(* long key with Unconditional succeeds and stores the value, and a get    *)
(* of the long key that immediately follows it returns Some of the value.  *)
C14_LongKeyRoundTrips ==
    /\ (last.op = "put" /\ last.key = long_key /\ last.cond.kind = "Any") =>
          /\ last.res.ok
          /\ Current = Written(Before, last.key, last.body)
    /\ (/\ last.op = "get"
        /\ last.key = long_key
        /\ last.prev # None
        /\ last.prev[1].kind = "Any") =>
            last.res = Ok(Some(last.prev[1].body))

----------------------------------------------------------------------------
(* Concurrent callers of one LocalStore: two callers, one call each, on    *)
(* the same directory tree.  Nothing excludes one call from another; the   *)
(* steps of a call are its file-system operations.  put reads the guard    *)
(* (self.get), makes the parent directories, creates the file, which       *)
(* empties it when it is there, and writes the body.                       *)

LocalCallers == {1, 2}

\* b"", b"h", b"hi"
RaceContents == { <<>>, <<104>>, <<104, 105>> }

\* a caller that has not called yet; `existing` is what the guard of put read
LocalIdle == [pc |-> "idle", call |-> NoCall, res |-> Ok(<<>>), existing |-> Ok(None)]

\* the calls the callers of the shared tree choose from, all on "a"
LocalCalls ==
    { Get(<<97>>) }
        \cup { Put(<<97>>, c, cond) :
                 c \in RaceContents,
                 cond \in {IfMatchAny, IfMatchNoneMatch, IfMatchTag(compute_etag(<<104>>))} }

\* the trees the callers start on: the empty root, or "a" |-> b"h" under it
LocalStarts ==
    { [p \in {<<>>} |-> Dir],
      LocalStore_put([p \in {<<>>} |-> Dir], <<97>>, <<104>>, IfMatchAny).disk }

LocalRaceInit ==
    /\ backend = "local"
    /\ map = Empty
    /\ disk \in LocalStarts
    /\ bucket = Empty
    /\ last = NoCall
    /\ callers = [c \in LocalCallers |-> LocalIdle]
    /\ mutex = None
    /\ history = [start |-> disk, before |-> {}]
    /\ last_local = NoCall

\* a caller invokes get or put
LocalCall(c, call) ==
    /\ callers[c].pc = "idle"
    /\ callers' = [callers EXCEPT ![c].pc = IF call.op = "get" THEN "read" ELSE "check",
                                  ![c].call = call]
    /\ UNCHANGED <<backend, map, disk, bucket, last, mutex, history, last_local>>

\* get: fs::read(&path) and the match on its result
LocalGetRead(c) ==
    /\ callers[c].pc = "read"
    /\ callers' = [callers EXCEPT ![c].pc = "done",
                                  ![c].res = LocalStore_get(disk, callers[c].call.key)]
    /\ UNCHANGED <<backend, map, disk, bucket, last, mutex, history, last_local>>

\* put: the match on cond, which reads the file for Tag and NoneMatch
LocalPutCheck(c) ==
    /\ callers[c].pc = "check"
    /\ LET call    == callers[c].call
           checked == LocalStore_check(disk, call.key, call.cond)
       IN  callers' = [callers EXCEPT
                          ![c].existing = LocalStore_get(disk, call.key),
                          ![c].pc = IF checked.ok THEN "mkdir" ELSE "done",
                          ![c].res = checked]
    /\ UNCHANGED <<backend, map, disk, bucket, last, mutex, history, last_local>>

\* put: fs::create_dir_all(parent)
LocalPutMkdir(c) ==
    /\ callers[c].pc = "mkdir"
    /\ LET path == object_path(callers[c].call.key)
           made == IF Len(path) > 0 THEN create_dir_all(disk, SubSeq(path, 1, Len(path) - 1))
                   ELSE [res |-> Ok(<<>>), disk |-> disk]
       IN  /\ disk' = made.disk
           /\ callers' = [callers EXCEPT ![c].pc = IF made.res.ok THEN "create" ELSE "done",
                                         ![c].res = made.res]
    /\ UNCHANGED <<backend, map, bucket, last, mutex, history, last_local>>

\* put: File::create(&path)
LocalPutCreate(c) ==
    /\ callers[c].pc = "create"
    /\ LET file == File_create(disk, object_path(callers[c].call.key))
       IN  /\ disk' = file.disk
           /\ callers' = [callers EXCEPT ![c].pc = IF file.res.ok THEN "write" ELSE "done",
                                         ![c].res = file.res]
    /\ UNCHANGED <<backend, map, bucket, last, mutex, history, last_local>>

\* put: file.write_all(body) and Ok(etag)
LocalPutWrite(c) ==
    /\ callers[c].pc = "write"
    /\ LET call  == callers[c].call
           wrote == write_all(disk, object_path(call.key), call.body)
       IN  /\ disk' = wrote.disk
           /\ callers' = [callers EXCEPT ![c].pc = "done",
                                         ![c].res = Ok(compute_etag(call.body))]
    /\ UNCHANGED <<backend, map, bucket, last, mutex, history, last_local>>

LocalRaceNext ==
    \/ \E c \in LocalCallers, call \in LocalCalls : LocalCall(c, call)
    \/ \E c \in LocalCallers : LocalGetRead(c)
    \/ \E c \in LocalCallers : LocalPutCheck(c)
    \/ \E c \in LocalCallers : LocalPutMkdir(c)
    \/ \E c \in LocalCallers : LocalPutCreate(c)
    \/ \E c \in LocalCallers : LocalPutWrite(c)

LocalRaceSpec == LocalRaceInit /\ [][LocalRaceNext]_vars

\* the two callers put to the same key with the same condition, MustNotExist
\* or MatchTag, and the guard of each read what the key held at the start
BothPassedOnStart ==
    /\ \A c \in LocalCallers :
          /\ callers[c].call.op = "put"
          /\ callers[c].call.key = callers[1].call.key
          /\ callers[c].call.cond = callers[1].call.cond
          /\ callers[c].call.cond.kind \in {"Tag", "NoneMatch"}
          /\ callers[c].pc \in {"mkdir", "create", "write", "done"}
          /\ callers[c].existing = LocalStore_get(history.start, callers[c].call.key)
    /\ LocalStore_check(history.start, callers[1].call.key, callers[1].call.cond).ok

(* C15: in the filesystem backend, when two concurrent puts to one key     *)
(* with the same precondition (MatchTag(t) with t current, or MustNotExist *)
(* with the key absent) both read the guard before the other writes, both  *)
(* go on to write: once both have returned, both returned success, no      *)
(* caller got PreconditionFailed, and the key holds the body of one of     *)
(* them only, the other update being overwritten.                          *)
C15_BothPassBothWrite ==
    (BothPassedOnStart /\ \A c \in LocalCallers : callers[c].pc = "done") =>
        /\ \A c \in LocalCallers : callers[c].res = Ok(compute_etag(callers[c].call.body))
        /\ \E c \in LocalCallers :
              LocalStore_get(disk, callers[c].call.key) = Ok(Some(callers[c].call.body))

\* two MustNotExist puts of different bodies to the absent key both
\* returned success
C15_Witness ==
    /\ BothPassedOnStart
    /\ \A c \in LocalCallers :
          /\ callers[c].pc = "done"
          /\ callers[c].call.cond.kind = "NoneMatch"
          /\ callers[c].res.ok
    /\ callers[1].call.body # callers[2].call.body
    /\ LocalStore_get(disk, <<97>>) = Ok(Some(callers[1].call.body))

\* the callers that have invoked a put to key
Putters(key) ==
    { c \in Callers : callers[c].pc # "idle"
                        /\ callers[c].call.op = "put"
                        /\ callers[c].call.key = key }

\* the puts to key so far all carry one precondition, which holds on the
\* store the callers started on: MustNotExist with key absent, or
\* MatchTag(t) with t the fingerprint of key and no body with fingerprint t
SamePrecondition(key) ==
    /\ \A c \in Putters(key) : \A d \in Putters(key) :
          callers[c].call.cond = callers[d].call.cond
    /\ \A c \in Putters(key) :
          \/ /\ callers[c].call.cond.kind = "NoneMatch"
             /\ key \notin DOMAIN history.start
          \/ /\ callers[c].call.cond.kind = "Tag"
             /\ key \in DOMAIN history.start
             /\ history.start[key][2] = callers[c].call.cond.tag
             /\ compute_etag(callers[c].call.body) # callers[c].call.cond.tag

(* C16: in the volatile backend, when the puts to one key all carry the    *)
(* same precondition (MustNotExist with the key absent, or MatchTag(t)     *)
(* with t current and every body's fingerprint different from t) and have  *)
(* all returned, exactly one returned success, every other returned        *)
(* PreconditionFailed, and the key holds the body of the one that          *)
(* succeeded.                                                              *)
C16_NoLostUpdate ==
    \A key \in {<<97>>, <<98>>} :
        (/\ Cardinality(Putters(key)) >= 2
         /\ SamePrecondition(key)
         /\ \A c \in Putters(key) : callers[c].pc = "done") =>
            \E w \in Putters(key) :
                /\ callers[w].res = Ok(compute_etag(callers[w].call.body))
                /\ \A c \in Putters(key) \ {w} : callers[c].res = PreconditionFailed
                /\ map[key] = <<callers[w].call.body, compute_etag(callers[w].call.body)>>

\* three MatchTag puts on the current fingerprint, all invoked before any
\* of them returned: one succeeded, two were refused
C16_Witness ==
    /\ Putters(<<97>>) = Callers
    /\ SamePrecondition(<<97>>)
    /\ history.before = {}
    /\ \A c \in Callers : callers[c].pc = "done" /\ callers[c].call.cond.kind = "Tag"
    /\ Cardinality({ c \in Callers : callers[c].res.ok }) = 1
    /\ Cardinality({ c \in Callers : callers[c].res = PreconditionFailed }) = 2

\* the bodies of the puts to key that have been invoked
PutBodies(key) ==
    { callers[c].call.body :
        c \in { d \in LocalCallers : callers[d].call.op = "put" /\ callers[d].call.key = key } }

(* C17: in the filesystem backend, a get(k) that runs while a put(k, C2)   *)
(* replaces an existing value C1 returns Some(C1) or Some(C2) in full:     *)
(* never absent, never an empty or partly written value.                   *)
C17_GetSeesOldOrNew ==
    \A c \in LocalCallers :
        (/\ callers[c].call.op = "get"
         /\ callers[c].pc = "done"
         /\ callers[c].call.key \in DOMAIN Objects(history.start)) =>
            \E v \in {Objects(history.start)[callers[c].call.key]}
                        \cup PutBodies(callers[c].call.key) :
                callers[c].res = Ok(Some(v))

(* C18: in the remote backend, a MatchTag or MustNotExist put whose        *)
(* head_object request fails for a reason other than not-found returns an  *)
(* error that is not PreconditionFailed, and the bucket is left as it was: *)
(* nothing is uploaded.                                                    *)
C18_ProbeFailureIsReported ==
    (/\ backend = "s3"
     /\ last.op = "put"
     /\ last.cond.kind \in {"Tag", "NoneMatch"}
     /\ last.fault = "head") =>
        /\ ~last.res.ok
        /\ last.res # PreconditionFailed
        /\ bucket = last.pre

\* the call that just returned is a successful put to key
PutReturned(key) == last.op = "put" /\ last.key = key /\ last.res.ok

\* the call that just returned ends a traversal of the keys that start with
\* a prefix of key
TraversalEnded(key) ==
    /\ last.op = "list"
    /\ last.chained
    /\ last.res.ok
    /\ last.res.val.next = None
    /\ starts_with(key, last.prefix)

(* C19: in the volatile and the filesystem backend, a successful put to k  *)
(* stores its body under k, and no other call (a get, a list, a put to     *)
(* another key, a failed put) changes or removes what k held before it; so *)
(* from the first successful put to k on, get(k) returns Some of the body  *)
(* of the most recent successful put to k, and a traversal of any prefix   *)
(* of k enumerates k.                                                      *)
C19_NeverDestroyed ==
    VolatileOrFilesystem =>
        \A k \in Keys :
            /\ PutReturned(k) => (k \in DOMAIN Current /\ Current[k] = last.body)
            /\ (k \in DOMAIN Before /\ ~PutReturned(k)) =>
                  (k \in DOMAIN Current /\ Current[k] = Before[k])
            /\ (k \in DOMAIN Before /\ last.op = "get" /\ last.key = k) =>
                  last.res = Ok(Some(Before[k]))
            /\ (k \in DOMAIN Before /\ TraversalEnded(k)) =>
                  \E i \in 1..Len(last.seen) : last.seen[i] = k

\* on the filesystem backend, with two keys stored, a get returned the value
\* of a key when the call before it was not a successful put to that key
C19_Witness ==
    /\ backend = "local"
    /\ last.op = "get"
    /\ last.key \in DOMAIN Before
    /\ last.res = Ok(Some(Before[last.key]))
    /\ Cardinality(DOMAIN Before) >= 2
    /\ last.prev = None

\* the first page of the stored keys that start with prefix and come after
\* the key `token`
PageAfter(objs, prefix, token) ==
    LET rest == sort({ k \in Matching(objs, prefix) : StrLess(token, k) })
    IN  SubSeq(rest, 1, IF Len(rest) > page_size THEN page_size ELSE Len(rest))

(* C20: in every backend, a next_continuation that list returns is the     *)
(* last key of the page it returns with it, and a list call that is given  *)
(* a key as continuation succeeds (unless the request fails in transport)  *)
(* and returns the first page of the matching keys after that key.         *)
C20_ContinuationIsLastKey ==
    (last.op = "list" /\ last.fault = "none") =>
        /\ (last.res.ok /\ last.res.val.next # None) =>
              /\ last.res.val.keys # <<>>
              /\ last.res.val.next = Some(last.res.val.keys[Len(last.res.val.keys)])
        /\ (last.cont # None /\ last.cont[1] \in Keys) =>
              /\ last.res.ok
              /\ last.res.val.keys = PageAfter(Current, last.prefix, last.cont[1])

----------------------------------------------------------------------------
(* C21: in the volatile backend, in every state of every concurrent        *)
(* execution, every key of the map holds one pair of a value and a         *)
(* fingerprint, and the fingerprint is the digest of the value: no entry   *)
(* has a value and a fingerprint that come from different puts.            *)
C21_EntryIsValueAndItsDigest ==
    \A k \in DOMAIN map :
        /\ Len(map[k]) = 2
        /\ map[k][2] = compute_etag(map[k][1])

\* two puts of different bodies to "a" that overlapped in time both
\* succeeded and a third was refused; the entry is the pair of one body
C21_Witness ==
    /\ \A c \in Callers : callers[c].pc = "done" /\ callers[c].call.op = "put"
    /\ history.before = {}
    /\ \E c, d, e \in Callers :
          /\ callers[c].res.ok /\ callers[d].res.ok
          /\ callers[c].call.key = <<97>> /\ callers[d].call.key = <<97>>
          /\ callers[c].call.body # callers[d].call.body
          /\ callers[e].res = PreconditionFailed
          /\ map[<<97>>] = <<callers[d].call.body, compute_etag(callers[d].call.body)>>

----------------------------------------------------------------------------
(* One caller traverses the keys of an InMemoryStore or a LocalStore: it   *)
(* calls list(prefix, None) and then follows each next_continuation, while *)
(* other callers put between its calls.  `last` is the traversing caller's *)
(* last list call, `history.start` the store at its first call.            *)

\* "a", "a/a", "ab", "b", "c", "d"
TraverseKeys == { <<97>>, <<97, 47, 97>>, <<97, 98>>, <<98>>, <<99>>, <<100>> }

TraverseInit ==
    /\ backend \in {"memory", "local"}
    /\ map = Empty
    /\ disk \in { Empty, [p \in {<<>>} |-> Dir] }
    /\ disk # Empty => backend = "local"
    /\ bucket = Empty
    /\ last = NoCall
    /\ callers = <<>>
    /\ mutex = None
    /\ history = [start |-> Empty, before |-> {}]
    /\ last_local = NoCall

\* another caller's put to the InMemoryStore
MemOtherPut(key, body, cond) ==
    /\ backend = "memory"
    /\ map' = InMemoryStore_put(map, key, body, cond).map
    /\ UNCHANGED <<backend, disk, bucket, last, others>>

\* the first call of the traversal of the InMemoryStore
MemTraverse(prefix) ==
    /\ backend = "memory"
    /\ last.op = "none"
    /\ last' = ListCall(prefix, None, InMemoryStore_list(map, prefix, None), map)
    /\ history' = [history EXCEPT !.start = map]
    /\ UNCHANGED <<backend, map, disk, bucket, callers, mutex, last_local>>

\* another caller's put to the LocalStore
LocalOtherPut(key, body, cond) ==
    /\ backend = "local"
    /\ disk' = LocalStore_put(disk, key, body, cond).disk
    /\ UNCHANGED <<backend, map, bucket, last, others>>

\* the first call of the traversal of the LocalStore
LocalTraverse(prefix) ==
    /\ backend = "local"
    /\ last.op = "none"
    /\ last' = ListCall(prefix, None, LocalStore_list(disk, prefix, None), disk)
    /\ history' = [history EXCEPT !.start = disk]
    /\ UNCHANGED <<backend, map, disk, bucket, callers, mutex, last_local>>

TraverseNext ==
    \/ \E k \in TraverseKeys, cond \in {IfMatchAny, IfMatchNoneMatch} :
          MemOtherPut(k, <<>>, cond)
    \/ \E p \in Prefixes : MemTraverse(p)
    \/ MemListNext
    \/ \E k \in TraverseKeys, cond \in {IfMatchAny, IfMatchNoneMatch} :
          LocalOtherPut(k, <<>>, cond)
    \/ \E p \in Prefixes : LocalTraverse(p)
    \/ LocalListNext

TraverseSpec == TraverseInit /\ [][TraverseNext]_vars

(* C22: in the volatile and the filesystem backend, over a traversal from  *)
(* list(prefix, None) along each next_continuation with puts of other      *)
(* callers between the calls, every page holds only keys greater than the  *)
(* token it was called with, the keys returned so far are strictly         *)
(* increasing (none twice, no restart at the first key), and when the      *)
(* traversal ends every matching key stored before its first call has      *)
(* been returned.                                                          *)
C22_TraversalUnderInserts ==
    (last.op = "list" /\ last.chained) =>
        /\ last.res.ok
        /\ last.cont # None =>
              \A i \in 1..Len(last.res.val.keys) :
                  StrLess(last.cont[1], last.res.val.keys[i])
        /\ Increasing(last.seen)
        /\ last.res.val.next = None =>
              Matching(Objects(history.start), last.prefix) \subseteq Elements(last.seen)

\* a traversal of the filesystem backend ended on its second call; a key
\* put after its first call is among the keys it returned, another is not
C22_Witness ==
    /\ backend = "local"
    /\ last.op = "list"
    /\ last.chained
    /\ last.calls = 2
    /\ last.res.val.next = None
    /\ \E k \in Matching(Current, last.prefix) \ DOMAIN Objects(history.start) :
          k \in Elements(last.seen)
    /\ \E k \in Matching(Current, last.prefix) \ DOMAIN Objects(history.start) :
          k \notin Elements(last.seen)

----------------------------------------------------------------------------
\* max(1, ceil(n / page_size))
CallsNeeded(n) ==
    IF n = 0 THEN 1 ELSE (n + page_size - 1) \div page_size

(* C23: in the volatile and the filesystem backend, over a traversal from  *)
(* list(prefix, None) along each next_continuation with the key set        *)
(* unchanged, no call returns an empty page together with a token, a call  *)
(* that returns a token is not yet the max(1, ceil(n / page_size))-th, and *)
(* the call that returns next_continuation None is exactly that one, n     *)
(* being the number of stored keys that start with prefix.                 *)
C23_TraversalEnds ==
    (VolatileOrFilesystem /\ last.op = "list" /\ last.chained) =>
        LET n == Cardinality(Matching(Current, last.prefix))
        IN  /\ last.res.ok
            /\ ~(last.res.val.keys = <<>> /\ last.res.val.next # None)
            /\ last.res.val.next # None => last.calls < CallsNeeded(n)
            /\ last.res.val.next = None => last.calls = CallsNeeded(n)

\* a traversal of three keys of the filesystem backend ended on its second
\* call, with a last page that is not full
C23_Witness ==
    /\ backend = "local"
    /\ last.op = "list"
    /\ last.chained
    /\ Cardinality(Matching(Current, last.prefix)) = page_size + 1
    /\ last.calls = 2
    /\ last.res.val.next = None
    /\ Len(last.res.val.keys) = 1

====
